---- MODULE Spec2Model ----
(***************************************************************************)
(* A model of the MongoDB collection reconciliation script (script.py):    *)
(* make_hashable, compare_collections, the JSONEncoder and main's loop.    *)
(*                                                                         *)
(* Python values are tagged records [t, s, kids]:                          *)
(*   t     the Python type ("int", "str", "oid" for bson.ObjectId, "list", *)
(*         "dict", "set", "tuple", "type" for a class object);             *)
(*   s     the payload of a scalar, kept as the text str() renders, so     *)
(*         str(1) and str("1") and str(ObjectId(h)) with h = "1" collide   *)
(*         exactly as they do in Python;                                   *)
(*   kids  the children in insertion order as items [k, val]; k is the key *)
(*         of a dict item and "" for a list, set or tuple item.            *)
(***************************************************************************)
EXTENDS Integers, Sequences, FiniteSets, TLC

VARIABLES pc, error, config, idx, collection_name, exclude_fields,
          source_data, target_data, differences, files,
          obj_a, obj_b, hash_a, hash_b

vars == <<pc, error, config, idx, collection_name, exclude_fields,
          source_data, target_data, differences, files,
          obj_a, obj_b, hash_a, hash_b>>

-----------------------------------------------------------------------------
(* Bounds of the model *)

\* documents held by the source and the target collection together
MaxDocs == 3
\* longest list value inside a document
MaxLen == 2
\* entries of config['collections']
MaxColls == 2

-----------------------------------------------------------------------------
(* Python values *)

Item(k, v) == [k |-> k, val |-> v]
IntV(s) == [t |-> "int", s |-> s, kids |-> <<>>]
StrV(s) == [t |-> "str", s |-> s, kids |-> <<>>]
Oid(s) == [t |-> "oid", s |-> s, kids |-> <<>>]
PyType(s) == [t |-> "type", s |-> s, kids |-> <<>>]
Elems(t, vs) == [t |-> t, s |-> "", kids |-> [i \in 1..Len(vs) |-> Item("", vs[i])]]
ListV(vs) == Elems("list", vs)
SetV(vs) == Elems("set", vs)
TupleV(vs) == Elems("tuple", vs)
DictV(items) == [t |-> "dict", s |-> "", kids |-> items]
\* no value at all: an absent side of a change, a step that raised
Absent == [t |-> "absent", s |-> "", kids |-> <<>>]
\* the TypeError json raises for an object it cannot serialise
TypeError == [t |-> "TypeError", s |-> "", kids |-> <<>>]

Range(f) == {f[i] : i \in DOMAIN f}
Keys(d) == {d.kids[i].k : i \in DOMAIN d.kids}
Get(d, k) == (CHOOSE i \in Range(d.kids) : i.k = k).val
Vals(v) == [i \in DOMAIN v.kids |-> v.kids[i].val]
Min(a, b) == IF a < b THEN a ELSE b

\* Orderings(s): the sequences that list each element of s once; the order in
\* which Python iterates a set of strings is not fixed by the program.
Orderings(s) ==
  {q \in [1..Cardinality(s) -> s] : \A i, j \in DOMAIN q : i # j => q[i] # q[j]}

\* The ascending order sorted() gives the key strings the model uses.
KeyOrder == <<"_id", "p", "q", "r", "v", "x">>
\* The ascending order sorted() gives the int payloads the model uses.
IntOrder == <<"1", "2">>

\* a, b are the same value up to the insertion order of mapping keys (and the
\* listing order of a set): the reference the properties compare the code with.
RECURSIVE StructEq(_, _)
StructEq(a, b) ==
  /\ a.t = b.t
  /\ CASE a.t = "dict" ->
            /\ Keys(a) = Keys(b)
            /\ \A k \in Keys(a) : StructEq(Get(a, k), Get(b, k))
       [] a.t \in {"list", "tuple"} ->
            /\ Len(a.kids) = Len(b.kids)
            /\ \A i \in DOMAIN a.kids : StructEq(a.kids[i].val, b.kids[i].val)
       [] a.t = "set" ->
            /\ \A x \in Range(a.kids) : \E y \in Range(b.kids) : StructEq(x.val, y.val)
            /\ \A y \in Range(b.kids) : \E x \in Range(a.kids) : StructEq(x.val, y.val)
       [] OTHER -> a.s = b.s

\* v holds an ObjectId somewhere
RECURSIVE HasOid(_)
HasOid(v) == v.t = "oid" \/ \E i \in DOMAIN v.kids : HasOid(v.kids[i].val)

-----------------------------------------------------------------------------
(* make_hashable, script.py 23-33 *)

RECURSIVE make_hashable(_)
make_hashable(obj) ==
  CASE obj.t = "dict" ->
         \* tuple((k, make_hashable(v)) for k, v in sorted(obj.items()))
         LET ks == SelectSeq(KeyOrder, LAMBDA k : k \in Keys(obj))
         IN  TupleV([i \in 1..Len(ks) |->
                       TupleV(<<StrV(ks[i]), make_hashable(Get(obj, ks[i]))>>)])
    [] obj.t = "list" ->
         TupleV([i \in DOMAIN obj.kids |-> make_hashable(obj.kids[i].val)])
    [] obj.t = "set" ->
         \* sorted(obj): the sets of the model hold ints only
         LET ss == SelectSeq(IntOrder, LAMBDA n : \E i \in Range(obj.kids) : i.val.s = n)
         IN  TupleV([i \in 1..Len(ss) |-> make_hashable(IntV(ss[i]))])
    [] obj.t = "oid" -> StrV(obj.s)
    [] OTHER -> obj

-----------------------------------------------------------------------------
(* JSONEncoder, script.py 14-21, under json.dumps / json.dump *)

\* mutant: a JSONEncoder without the ObjectId branch
JSONEncoder_default_NoObjectId(obj) ==
  CASE obj.t = "SetOrdered" -> ListV(Vals(obj))
    [] OTHER -> TypeError

\* JSONEncoder.default: called by json for an object it cannot serialise itself;
\* super().default raises TypeError.
JSONEncoder_default(obj) ==
  CASE obj.t = "oid" -> StrV(obj.s)
    [] obj.t = "SetOrdered" -> ListV(Vals(obj))
    [] OTHER -> TypeError

\* json's encoding of a value with cls=JSONEncoder: the JSON value written, or
\* TypeError when some object in it is refused by default().
RECURSIVE json_encode(_)
json_encode(v) ==
  CASE v.t \in {"int", "str"} -> v
    [] v.t \in {"list", "tuple", "dict"} ->
         LET enc == [i \in DOMAIN v.kids |-> json_encode(v.kids[i].val)]
         IN  IF \E i \in DOMAIN enc : enc[i] = TypeError
               THEN TypeError
               ELSE [t |-> IF v.t = "dict" THEN "dict" ELSE "list", s |-> "",
                     kids |-> [i \in DOMAIN enc |-> Item(v.kids[i].k, enc[i])]]
    [] OTHER ->
         LET d == JSONEncoder_default(v)
         IN  IF d = TypeError THEN TypeError ELSE json_encode(d)

-----------------------------------------------------------------------------
(* DeepDiff(src_doc, tgt_doc, ignore_order=False).to_dict(), script.py 98-104 *)
(* The library's report is a dict: report type -> path -> change.  It is   *)
(* modelled as the set of its changes [kind, path, old, new]; a path is the *)
(* sequence of keys and list indices from the root.  With the default      *)
(* verbose_level a dictionary item added or removed is reported by its     *)
(* path alone, a list item added or removed with its value, a changed      *)
(* value with old_value and new_value, and a change of type with these and *)
(* with old_type and new_type, the two classes themselves.  Lists are      *)
(* compared by position; whichever pairing of list items the library       *)
(* reports, its report is empty exactly when this one is.  The documents   *)
(* of the model hold one ObjectId value only, so two different ObjectIds   *)
(* are never compared with each other.                                     *)

Change(kind, path, old, new) == [kind |-> kind, path |-> path, old |-> old, new |-> new]
AtKey(path, k) == Append(path, [key |-> k, index |-> 0])
AtIndex(path, i) == Append(path, [key |-> "", index |-> i])

RECURSIVE Diff(_, _, _)
Diff(t1, t2, path) ==
  IF t1.t # t2.t
    THEN {Change("type_changes", path, t1, t2)}
  ELSE IF t1.t = "dict"
    THEN {Change("dictionary_item_removed", AtKey(path, k), Absent, Absent) :
             k \in Keys(t1) \ Keys(t2)}
         \cup {Change("dictionary_item_added", AtKey(path, k), Absent, Absent) :
                 k \in Keys(t2) \ Keys(t1)}
         \cup UNION {Diff(Get(t1, k), Get(t2, k), AtKey(path, k)) :
                       k \in Keys(t1) \cap Keys(t2)}
  ELSE IF t1.t = "list"
    THEN \* ignore_order=False: the items are compared position by position
         UNION {Diff(t1.kids[i].val, t2.kids[i].val, AtIndex(path, i)) :
                  i \in 1..Min(Len(t1.kids), Len(t2.kids))}
         \cup {Change("iterable_item_removed", AtIndex(path, i), t1.kids[i].val, Absent) :
                 i \in (Len(t2.kids) + 1)..Len(t1.kids)}
         \cup {Change("iterable_item_added", AtIndex(path, i), Absent, t2.kids[i].val) :
                 i \in (Len(t1.kids) + 1)..Len(t2.kids)}
  ELSE IF t1.s # t2.s
    THEN {Change("values_changed", path, t1, t2)}
  ELSE {}

DeepDiff(t1, t2) == Diff(t1, t2, <<>>)

\* The Python objects one change of diff.to_dict() holds besides its path string:
\* a type change carries old_type and new_type, which are class objects.
ChangeObjects(c) ==
  CASE c.kind = "type_changes" -> {PyType(c.old.t), PyType(c.new.t), c.old, c.new}
    [] c.kind = "values_changed" -> {c.old, c.new}
    [] c.kind = "iterable_item_removed" -> {c.old}
    [] c.kind = "iterable_item_added" -> {c.new}
    [] OTHER -> {}

\* json can encode diff.to_dict(): no object in it is refused (TypeError)
DiffSerialisable(diff) ==
  \A c \in diff : \A o \in ChangeObjects(c) : json_encode(o) # TypeError

\* json's encoding of a serialisable diff.to_dict(): the changes with their values encoded
json_encode_diff(diff) ==
  {[c EXCEPT !.old = IF c.old = Absent THEN Absent ELSE json_encode(c.old),
             !.new = IF c.new = Absent THEN Absent ELSE json_encode(c.new)] :
     c \in diff}

-----------------------------------------------------------------------------
(* compare_collections, script.py 68-124 *)

\* str(doc['_id']); the identities of the model are scalars
str(v) == v.s
HasId(doc) == "_id" \in Keys(doc)

\* mutant: the comprehension drops _id only and keeps the excluded fields
StripDoc_KeepsExcluded(doc, exclude) ==
  DictV(SelectSeq(doc.kids, LAMBDA it : it.k # "_id"))

\* {k: v for k, v in doc.items() if k not in exclude_fields + ['_id']}
StripDoc(doc, exclude) ==
  DictV(SelectSeq(doc.kids, LAMBDA it : it.k \notin (Range(exclude) \cup {"_id"})))

\* set(source_dict.keys())
doc_ids(data) == {str(Get(data[i], "_id")) : i \in DOMAIN data}

\* source_dict / target_dict: a later document of the same str(_id) replaces an earlier one
doc_dict(data, exclude) ==
  [id \in doc_ids(data) |->
     LET last == CHOOSE i \in DOMAIN data :
                   /\ str(Get(data[i], "_id")) = id
                   /\ \A j \in DOMAIN data : j > i => str(Get(data[j], "_id")) # id
     IN  StripDoc(data[last], exclude)]

\* mutants: the set difference forgotten
missing_in_source_ids_NoSubtraction(S, T) == doc_ids(T)
missing_in_target_ids_NoSubtraction(S, T) == doc_ids(S)

missing_in_source_ids(S, T) == doc_ids(T) \ doc_ids(S)
missing_in_target_ids(S, T) == doc_ids(S) \ doc_ids(T)
common_ids(S, T) == doc_ids(S) \cap doc_ids(T)

\* mutant: the identity is not put back into the reported document
OutDoc_NoId(id, dict) == dict[id]

\* {'_id': _id, **target_dict[_id]}
OutDoc(id, dict) == DictV(<<Item("_id", StrV(id))>> \o dict[id].kids)

\* one element of content_differences
DiffEntry(id, S, T, exclude) ==
  LET src_doc == doc_dict(S, exclude)[id]
      tgt_doc == doc_dict(T, exclude)[id]
  IN  [_id |-> StrV(id), source_doc |-> src_doc, target_doc |-> tgt_doc,
       diff |-> DeepDiff(src_doc, tgt_doc)]

\* the entries appended in the loop over common_ids: those with a non-empty diff
content_differences(S, T, exclude) ==
  {e \in {DiffEntry(id, S, T, exclude) : id \in common_ids(S, T)} : e.diff # {}}

\* json.dumps(content_differences, indent=2, cls=JSONEncoder) of the log line
\* succeeds on this entry
EntrySerialisable(e) ==
  /\ json_encode(e.source_doc) # TypeError
  /\ json_encode(e.target_doc) # TypeError
  /\ DiffSerialisable(e.diff)

\* json's encoding of a serialisable entry
json_encode_entry(e) ==
  [_id |-> e._id, source_doc |-> json_encode(e.source_doc),
   target_doc |-> json_encode(e.target_doc), diff |-> json_encode_diff(e.diff)]

\* compare_collections raises (and main ends): doc['_id'] is a KeyError, or the
\* log line cannot serialise content_differences
Raises(S, T, exclude) ==
  \/ \E i \in DOMAIN S : ~HasId(S[i])
  \/ \E i \in DOMAIN T : ~HasId(T[i])
  \/ \E e \in content_differences(S, T, exclude) : ~EntrySerialisable(e)

\* the dict compare_collections returns, its three lists as the sets of their elements
Report(S, T, exclude) ==
  [missing_in_source |-> {OutDoc(id, doc_dict(T, exclude)) : id \in missing_in_source_ids(S, T)},
   missing_in_target |-> {OutDoc(id, doc_dict(S, exclude)) : id \in missing_in_target_ids(S, T)},
   common_count |-> Cardinality(common_ids(S, T)),
   content_differences |-> content_differences(S, T, exclude)]

NoDifferences ==
  [missing_in_source |-> <<>>, missing_in_target |-> <<>>, common_count |-> 0,
   content_differences |-> <<>>]

compare_collections ==
  /\ pc = "compare"
  /\ IF Raises(source_data, target_data, exclude_fields)
       THEN /\ pc' = "aborted"
            /\ error' = "compare"
            /\ UNCHANGED differences
       ELSE /\ \E ms \in Orderings(missing_in_source_ids(source_data, target_data)),
                  mt \in Orderings(missing_in_target_ids(source_data, target_data)),
                  cd \in Orderings(content_differences(source_data, target_data, exclude_fields)) :
                 differences' =
                   [missing_in_source |->
                      [i \in DOMAIN ms |-> OutDoc(ms[i], doc_dict(target_data, exclude_fields))],
                    missing_in_target |->
                      [i \in DOMAIN mt |-> OutDoc(mt[i], doc_dict(source_data, exclude_fields))],
                    common_count |-> Cardinality(common_ids(source_data, target_data)),
                    content_differences |-> cd]
            /\ pc' = "write"
            /\ UNCHANGED error
  /\ UNCHANGED <<config, idx, collection_name, exclude_fields, source_data, target_data,
                 files, obj_a, obj_b, hash_a, hash_b>>

-----------------------------------------------------------------------------
(* main, script.py 126-155 *)

\* collection.find({}, {field: 0 for field in exclude_fields}): the server drops
\* the top-level fields of the projection, _id too when it is listed
Project(data, exclude) ==
  [i \in DOMAIN data |->
     DictV(SelectSeq(data[i].kids, LAMBDA it : it.k \notin Range(exclude)))]

MkDoc(id, body) == DictV(<<Item("_id", id)>> \o body)

\* what a collection of either database may hold when main reads it
DbContents ==
  {<<>>,
   <<MkDoc(StrV("a"), <<Item("x", IntV("1"))>>)>>,
   <<MkDoc(StrV("a"), <<Item("x", IntV("2"))>>), MkDoc(Oid("b"), <<Item("x", IntV("1"))>>)>>}

\* json.dump(differences, f, indent=2, cls=JSONEncoder)
json_encode_differences(d) ==
  [missing_in_source |-> [i \in DOMAIN d.missing_in_source |-> json_encode(d.missing_in_source[i])],
   missing_in_target |-> [i \in DOMAIN d.missing_in_target |-> json_encode(d.missing_in_target[i])],
   common_count |-> d.common_count,
   content_differences |->
     [i \in DOMAIN d.content_differences |-> json_encode_entry(d.content_differences[i])]]

Abort(why) ==
  /\ pc' = "aborted"
  /\ error' = why

\* load_config('config.json'): an unreadable or malformed file is logged and raised
load_config ==
  /\ pc = "load"
  /\ IF config.loadable THEN pc' = "extract" /\ UNCHANGED error ELSE Abort("config")
  /\ UNCHANGED <<config, idx, collection_name, exclude_fields, source_data, target_data,
                 differences, files, obj_a, obj_b, hash_a, hash_b>>

\* config['source_db'], config['target_db'], config['collections']
extract_config ==
  /\ pc = "extract"
  /\ IF {"source_db", "target_db", "collections"} \subseteq config.keys
       THEN pc' = "connect_source" /\ UNCHANGED error
       ELSE Abort("config")
  /\ UNCHANGED <<config, idx, collection_name, exclude_fields, source_data, target_data,
                 differences, files, obj_a, obj_b, hash_a, hash_b>>

\* connect_to_db(source_db_config): db_config['host'] and db_config['db_name'] are
\* required; MongoClient itself connects lazily
connect_source ==
  /\ pc = "connect_source"
  /\ IF {"host", "db_name"} \subseteq config.source_db
       THEN pc' = "connect_target" /\ UNCHANGED error
       ELSE Abort("config")
  /\ UNCHANGED <<config, idx, collection_name, exclude_fields, source_data, target_data,
                 differences, files, obj_a, obj_b, hash_a, hash_b>>

connect_target ==
  /\ pc = "connect_target"
  /\ IF {"host", "db_name"} \subseteq config.target_db
       THEN pc' = "loop" /\ UNCHANGED error
       ELSE Abort("config")
  /\ UNCHANGED <<config, idx, collection_name, exclude_fields, source_data, target_data,
                 differences, files, obj_a, obj_b, hash_a, hash_b>>

\* for collection in collections: collection['name'], collection.get('exclude_fields', [])
next_collection ==
  /\ pc = "loop"
  /\ IF idx > Len(config.collections)
       THEN /\ pc' = "done"
            /\ UNCHANGED <<error, collection_name, exclude_fields>>
       ELSE IF ~config.collections[idx].has_name
         THEN /\ Abort("config")
              /\ UNCHANGED <<collection_name, exclude_fields>>
         ELSE /\ collection_name' = config.collections[idx].name
              /\ exclude_fields' = config.collections[idx].exclude_fields
              /\ pc' = "get_source"
              /\ UNCHANGED error
  /\ UNCHANGED <<config, idx, source_data, target_data, differences, files,
                 obj_a, obj_b, hash_a, hash_b>>

\* get_collection_data(source_db, ...): the documents, or the driver's exception raised
get_source_data ==
  /\ pc = "get_source"
  /\ \/ /\ \E docs \in DbContents : source_data' = Project(docs, exclude_fields)
        /\ pc' = "get_target"
        /\ UNCHANGED error
     \/ /\ Abort("data_access")
        /\ UNCHANGED source_data
  /\ UNCHANGED <<config, idx, collection_name, exclude_fields, target_data, differences,
                 files, obj_a, obj_b, hash_a, hash_b>>

get_target_data ==
  /\ pc = "get_target"
  /\ \/ /\ \E docs \in DbContents : target_data' = Project(docs, exclude_fields)
        /\ pc' = "compare"
        /\ UNCHANGED error
     \/ /\ Abort("data_access")
        /\ UNCHANGED target_data
  /\ UNCHANGED <<config, idx, collection_name, exclude_fields, source_data, differences,
                 files, obj_a, obj_b, hash_a, hash_b>>

\* with open(f'differences_{collection_name}_...json', 'w') as f: json.dump(...)
\* files lists the files in the order written (the time stamp in the name is left out)
write_differences ==
  /\ pc = "write"
  /\ files' = Append(files, [name |-> collection_name,
                             content |-> json_encode_differences(differences)])
  /\ idx' = idx + 1
  /\ pc' = "loop"
  /\ UNCHANGED <<error, config, collection_name, exclude_fields, source_data, target_data,
                 differences, obj_a, obj_b, hash_a, hash_b>>

\* the entries config['collections'] may hold
CollEntries ==
  {[has_name |-> FALSE, name |-> "", exclude_fields |-> <<>>],
   [has_name |-> TRUE, name |-> "users", exclude_fields |-> <<>>],
   [has_name |-> TRUE, name |-> "users", exclude_fields |-> <<"x">>],
   [has_name |-> TRUE, name |-> "orders", exclude_fields |-> <<"_id">>]}

SeqsUpTo(S, n) == UNION {[1..k -> S] : k \in 0..n}

Configs ==
  [loadable : BOOLEAN,
   keys : SUBSET {"source_db", "target_db", "collections"},
   source_db : SUBSET {"host", "db_name"},
   target_db : SUBSET {"host", "db_name"},
   collections : SeqsUpTo(CollEntries, MaxColls)]

NoConfig ==
  [loadable |-> FALSE, keys |-> {}, source_db |-> {}, target_db |-> {}, collections |-> <<>>]

Init ==
  /\ pc = "load"
  /\ error = "none"
  /\ config \in Configs
  /\ idx = 1
  /\ collection_name = ""
  /\ exclude_fields = <<>>
  /\ source_data = <<>>
  /\ target_data = <<>>
  /\ differences = NoDifferences
  /\ files = <<>>
  /\ obj_a = Absent /\ obj_b = Absent /\ hash_a = Absent /\ hash_b = Absent

Next ==
  \/ load_config
  \/ extract_config
  \/ connect_source
  \/ connect_target
  \/ next_collection
  \/ get_source_data
  \/ get_target_data
  \/ compare_collections
  \/ write_differences

Spec == Init /\ [][Next]_vars

-----------------------------------------------------------------------------
(* compare_collections on its own: every pair of collections and every     *)
(* exclusion list of the bounded universes below                           *)

Ids == {Oid("a"), StrV("a"), StrV("b")}

\* documents for the identity matching: two bodies that differ in field x only
MatchBodies ==
  {<<Item("x", IntV("1")), Item("r", Oid("a"))>>,
   <<Item("x", IntV("2")), Item("r", Oid("a"))>>}
MatchDocs == {MkDoc(id, b) : id \in Ids, b \in MatchBodies}

\* values of a field for the content comparison
ListElems == {IntV("1"), IntV("2")}
Scalars == ListElems \cup {StrV("1"), Oid("a")}
Lists == {ListV(q) : q \in SeqsUpTo(ListElems, MaxLen)} \cup {ListV(<<Oid("a")>>)}
Dicts ==
  {DictV(<<>>), DictV(<<Item("p", Oid("a"))>>),
   DictV(<<Item("p", ListV(<<IntV("1"), IntV("2")>>))>>),
   DictV(<<Item("p", ListV(<<IntV("2"), IntV("1")>>))>>)}
  \cup {DictV(<<Item("p", e)>>) : e \in ListElems}
  \cup {DictV(<<Item("p", e), Item("q", f)>>) : e, f \in ListElems}
  \cup {DictV(<<Item("q", f), Item("p", e)>>) : e, f \in ListElems}
FieldVals == Scalars \cup Lists \cup Dicts

\* documents for the content comparison: field v, with or without the field x
DiffBodies ==
  {<<Item("v", v)>> : v \in FieldVals}
  \cup {<<Item("x", x), Item("v", v)>> : x \in ListElems \cup {StrV("1")}, v \in FieldVals}
  \cup {<<Item("v", v), Item("x", IntV("1"))>> : v \in FieldVals}

Excludes == {<<>>, <<"x">>, <<"_id">>}

InitCompare ==
  /\ pc = "compare"
  /\ error = "none"
  /\ config = NoConfig
  /\ idx = 1
  /\ collection_name = "users"
  /\ \/ \* any two collections of MaxDocs documents together
        /\ exclude_fields \in Excludes
        /\ \E n \in 0..MaxDocs :
             /\ source_data \in [1..n -> MatchDocs]
             /\ target_data \in SeqsUpTo(MatchDocs, MaxDocs - n)
     \/ \* a collection against itself
        /\ exclude_fields \in Excludes
        /\ source_data \in SeqsUpTo(MatchDocs, MaxDocs)
        /\ target_data = source_data
     \/ \* one document on each side under the same identity, any two bodies
        /\ exclude_fields \in {<<>>, <<"x">>}
        /\ source_data \in {<<MkDoc(Oid("a"), b)>> : b \in DiffBodies}
        /\ target_data \in {<<MkDoc(StrV("a"), b)>> : b \in DiffBodies}
  /\ differences = NoDifferences
  /\ files = <<>>
  /\ obj_a = Absent /\ obj_b = Absent /\ hash_a = Absent /\ hash_b = Absent

NextCompare == compare_collections

SpecCompare == InitCompare /\ [][NextCompare]_vars

-----------------------------------------------------------------------------
(* make_hashable on its own *)

HashVals ==
  FieldVals
  \cup {StrV("a"), SetV(<<IntV("1"), IntV("2")>>), SetV(<<IntV("2"), IntV("1")>>),
        ListV(<<ListV(<<StrV("p"), IntV("1")>>)>>),
        DictV(<<Item("p", DictV(<<Item("q", IntV("1")), Item("p", IntV("2"))>>))>>),
        DictV(<<Item("p", DictV(<<Item("p", IntV("2")), Item("q", IntV("1"))>>))>>)}

InitHash ==
  /\ pc = "hash"
  /\ error = "none"
  /\ config = NoConfig
  /\ idx = 1
  /\ collection_name = ""
  /\ exclude_fields = <<>>
  /\ source_data = <<>>
  /\ target_data = <<>>
  /\ differences = NoDifferences
  /\ files = <<>>
  /\ obj_a \in HashVals
  /\ obj_b \in HashVals
  /\ hash_a = Absent /\ hash_b = Absent

Canonicalize ==
  /\ pc = "hash"
  /\ hash_a' = make_hashable(obj_a)
  /\ hash_b' = make_hashable(obj_b)
  /\ pc' = "hashed"
  /\ UNCHANGED <<error, config, idx, collection_name, exclude_fields, source_data,
                 target_data, differences, files, obj_a, obj_b>>

NextHash == Canonicalize

SpecHash == InitHash /\ [][NextHash]_vars

-----------------------------------------------------------------------------
(* Properties *)

\* compare_collections has returned its result
Returned == pc = "write"
\* compare_collections has run: it returned or it raised
Ran == pc \in {"write", "aborted"}

\* the result in differences, its lists as the sets of their elements
Reported ==
  [missing_in_source |-> Range(differences.missing_in_source),
   missing_in_target |-> Range(differences.missing_in_target),
   common_count |-> differences.common_count,
   content_differences |-> Range(differences.content_differences)]

\* the distinct stringified _id values of a collection, and their number
IdsOf(data) == {Get(data[i], "_id").s : i \in DOMAIN data}
DistinctIds(data) == Cardinality(IdsOf(data))
\* the identities both collections of the state hold
CommonIdentities == IdsOf(source_data) \cap IdsOf(target_data)

\* the document of a collection that stands for identity id: the last one
Standing(data, id) ==
  data[CHOOSE i \in DOMAIN data :
         /\ Get(data[i], "_id").s = id
         /\ \A j \in DOMAIN data : j > i => Get(data[j], "_id").s # id]

\* the fields of a document that take part in the comparison
Kept(doc, exclude) == Keys(doc) \ (Range(exclude) \cup {"_id"})

\* two documents with the same content after removal of _id and the excluded fields
SameContent(d1, d2, exclude) ==
  /\ Kept(d1, exclude) = Kept(d2, exclude)
  /\ \A k \in Kept(d1, exclude) : StructEq(Get(d1, k), Get(d2, k))

\* the entries of content_differences that carry identity id
EntriesOf(id) ==
  {i \in DOMAIN differences.content_differences :
     differences.content_differences[i]._id = StrV(id)}

\* C1: common_count + len(missing_in_target) is the number of distinct stringified
\* _id values of the source; common_count + len(missing_in_source) that of the target.
C1_SetCompleteness ==
  Returned =>
    /\ differences.common_count + Len(differences.missing_in_target) = DistinctIds(source_data)
    /\ differences.common_count + Len(differences.missing_in_source) = DistinctIds(target_data)

\* a source with two documents under one stringified identity, which the target holds too
C1_Witness ==
  /\ Returned
  /\ Len(source_data) > DistinctIds(source_data)
  /\ differences.common_count >= 1

\* the values a field may be changed to
AltVals(k) == IF k = "_id" THEN Ids ELSE ListElems

\* the item sequences that differ from kids only in the values of the fields in names
RECURSIVE KidsVariants(_, _)
KidsVariants(kids, names) ==
  IF kids = <<>> THEN {<<>>}
  ELSE LET h == Head(kids)
           hs == IF h.k \in names THEN {Item(h.k, v) : v \in AltVals(h.k)} ELSE {h}
       IN  {<<i>> \o rest : i \in hs, rest \in KidsVariants(Tail(kids), names)}

\* the collections that differ from data only in the values of the fields in names
RECURSIVE DataVariants(_, _)
DataVariants(data, names) ==
  IF data = <<>> THEN {<<>>}
  ELSE {<<DictV(k)>> \o rest : k \in KidsVariants(Head(data).kids, names),
                               rest \in DataVariants(Tail(data), names)}

\* compare_collections(S2, T2) ends as the run recorded in the state did
SameOutcome(S2, T2) ==
  IF Returned
    THEN ~Raises(S2, T2, exclude_fields) /\ Report(S2, T2, exclude_fields) = Reported
    ELSE Raises(S2, T2, exclude_fields)

\* C2 as stated: collections that differ only in the values of fields named in the
\* exclusion list give the same result.
C2_ExclusionTransparency_AsStated ==
  Ran =>
    \A S2 \in DataVariants(source_data, Range(exclude_fields)) :
      \A T2 \in DataVariants(target_data, Range(exclude_fields)) :
        SameOutcome(S2, T2)

\* C2 amended: collections that differ only in the values of fields named in the
\* exclusion list, other than _id, give the same result.
C2_ExclusionTransparency ==
  Ran =>
    \A S2 \in DataVariants(source_data, Range(exclude_fields) \ {"_id"}) :
      \A T2 \in DataVariants(target_data, Range(exclude_fields) \ {"_id"}) :
        SameOutcome(S2, T2)

\* a common pair whose documents differ in the excluded field x and is not reported
C2_Witness ==
  /\ Returned
  /\ exclude_fields = <<"x">>
  /\ differences.content_differences = <<>>
  /\ \E i \in DOMAIN source_data : \E j \in DOMAIN target_data :
       /\ Get(source_data[i], "_id").s = Get(target_data[j], "_id").s
       /\ "x" \in Keys(source_data[i]) \cap Keys(target_data[j])
       /\ Get(source_data[i], "x") # Get(target_data[j], "x")

\* C3: once compare_collections has run, a common identity has exactly one entry in
\* content_differences when its two documents differ after removal of _id and the
\* excluded fields, none when they do not, and every entry is of a common identity.
C3_ContentDifferences ==
  Ran =>
    /\ \A id \in CommonIdentities :
         Cardinality(EntriesOf(id)) =
           IF SameContent(Standing(source_data, id), Standing(target_data, id), exclude_fields)
             THEN 0 ELSE 1
    /\ \A i \in DOMAIN differences.content_differences :
         differences.content_differences[i]._id.s \in CommonIdentities

\* the same statement for the runs in which compare_collections returns
C3_WhenReturned == Returned => C3_ContentDifferences

\* C4 amended: a collection in which no two documents share a stringified _id,
\* compared with itself, gives empty lists and common_count = |S|.
C4_Idempotence ==
  (/\ Ran
   /\ target_data = source_data
   /\ DistinctIds(source_data) = Len(source_data))
  => /\ Returned
     /\ differences.missing_in_source = <<>>
     /\ differences.missing_in_target = <<>>
     /\ differences.common_count = Len(source_data)
     /\ differences.content_differences = <<>>

\* C4 as stated: the same for a collection in which no two documents hold the same
\* _id value.
C4_Idempotence_AsStated ==
  (/\ Ran
   /\ target_data = source_data
   /\ \A i, j \in DOMAIN source_data :
        i # j => Get(source_data[i], "_id") # Get(source_data[j], "_id"))
  => /\ Returned
     /\ differences.missing_in_source = <<>>
     /\ differences.missing_in_target = <<>>
     /\ differences.common_count = Len(source_data)
     /\ differences.content_differences = <<>>

\* a collection of several documents compared with itself
C4_Witness ==
  /\ Returned
  /\ target_data = source_data
  /\ Len(source_data) >= 2
  /\ DistinctIds(source_data) = Len(source_data)
  /\ exclude_fields = <<"x">>

\* C5: the result of compare_collections(S, T) and that of compare_collections(T, S)
\* have missing_in_source and missing_in_target exchanged (as sets of documents) and
\* the same common_count.
C5_Symmetry ==
  Returned =>
    LET back == Report(target_data, source_data, exclude_fields)
    IN  /\ back.missing_in_target = Range(differences.missing_in_source)
        /\ back.missing_in_source = Range(differences.missing_in_target)
        /\ back.common_count = differences.common_count

\* both lists are non-empty
C5_Witness ==
  /\ Returned
  /\ differences.missing_in_source # <<>>
  /\ differences.missing_in_target # <<>>

\* out is the report of the document that stands for identity id in data
IsRestored(out, id, data) ==
  LET doc == Standing(data, id)
  IN  /\ Len(out.kids) = Cardinality(Keys(out))
      /\ Keys(out) = {"_id"} \cup Kept(doc, exclude_fields)
      /\ Get(out, "_id") = StrV(id)
      /\ \A k \in Kept(doc, exclude_fields) : Get(out, k) = Get(doc, k)

\* missing lists one document for each identity of ids, restored from data
ListsRestored(missing, ids, data) ==
  /\ Len(missing) = Cardinality(ids)
  /\ \A id \in ids :
       \E i \in DOMAIN missing :
         /\ IsRestored(missing[i], id, data)
         /\ \A j \in DOMAIN missing : Get(missing[j], "_id") = StrV(id) => j = i

\* C6: missing_in_source (missing_in_target) holds one document for each target-only
\* (source-only) identity: _id as the string of the identity, and the non-excluded
\* fields of the original document with their values.
C6_MissingDocuments ==
  Returned =>
    /\ ListsRestored(differences.missing_in_source,
                     IdsOf(target_data) \ IdsOf(source_data),
                     target_data)
    /\ ListsRestored(differences.missing_in_target,
                     IdsOf(source_data) \ IdsOf(target_data),
                     source_data)

\* a target-only document reported although the exclusion list names _id
C6_Witness ==
  /\ Returned
  /\ exclude_fields = <<"_id">>
  /\ differences.missing_in_source # <<>>
  /\ \E i \in DOMAIN target_data : Get(target_data[i], "_id").t = "oid"

\* C7: a run of main that ends on a configuration error has written no differences
\* file and reconciled no collection.
C7_ConfigErrorsFatalAtStartup ==
  (pc = "aborted" /\ error = "config") => (files = <<>> /\ differences = NoDifferences)

\* the configuration errors main finds before its loop do end it with nothing written
C7_BeforeTheLoop ==
  (pc = "aborted" /\ error = "config" /\ idx = 1) => files = <<>>

\* l2 holds the elements of l1 in another order
Reordered(l1, l2) ==
  /\ l1.t = "list" /\ l2.t = "list"
  /\ l1 # l2
  /\ Len(l1.kids) = Len(l2.kids)
  /\ \E perm \in Orderings(DOMAIN l1.kids) :
       \A i \in DOMAIN l1.kids : l2.kids[i] = l1.kids[perm[i]]

\* the common identities whose documents hold reordered lists in a compared field
ReorderedPairs ==
  {id \in CommonIdentities :
     LET s == Standing(source_data, id)
         t == Standing(target_data, id)
     IN  \E k \in Kept(s, exclude_fields) \cap Kept(t, exclude_fields) :
           Reordered(Get(s, k), Get(t, k))}

\* C8: once compare_collections has run, every common identity whose documents hold,
\* in the same compared field, the same elements in another order has an entry with
\* a non-empty diff.
C8_OrderSensitivity ==
  Ran =>
    \A id \in ReorderedPairs :
      \E i \in EntriesOf(id) : differences.content_differences[i].diff # {}

\* the same statement for the runs in which compare_collections returns
C8_WhenReturned == Returned => C8_OrderSensitivity

\* the values one change of a diff holds
ChangeValues(c) == {c.old, c.new} \ {Absent}

\* C9 as stated: no ObjectId is left anywhere in the result compare_collections returns.
C9_NoObjectIdInResult ==
  Returned =>
    /\ \A d \in Reported.missing_in_source \cup Reported.missing_in_target : ~HasOid(d)
    /\ \A e \in Reported.content_differences :
         /\ ~HasOid(e._id) /\ ~HasOid(e.source_doc) /\ ~HasOid(e.target_doc)
         /\ \A c \in e.diff : \A v \in ChangeValues(c) : ~HasOid(v)

\* C9 amended: in the result every document identity is a string, and the JSON that
\* JSONEncoder writes of the result holds no ObjectId and raises no TypeError.
C9_ObjectIdsRendered ==
  Returned =>
    /\ \A d \in Reported.missing_in_source \cup Reported.missing_in_target :
         Get(d, "_id").t = "str"
    /\ \A e \in Reported.content_differences : e._id.t = "str"
    /\ LET out == json_encode_differences(differences)
       IN  /\ \A d \in Range(out.missing_in_source) \cup Range(out.missing_in_target) :
                d # TypeError /\ ~HasOid(d)
           /\ \A e \in Range(out.content_differences) :
                /\ e.source_doc # TypeError /\ ~HasOid(e.source_doc)
                /\ e.target_doc # TypeError /\ ~HasOid(e.target_doc)
                /\ \A c \in e.diff : \A v \in ChangeValues(c) : v # TypeError /\ ~HasOid(v)

\* a reported document and a reported pair that hold an ObjectId in another field,
\* the document's own identity being an ObjectId
C9_Witness ==
  /\ Returned
  /\ \E i \in DOMAIN differences.missing_in_source :
       HasOid(differences.missing_in_source[i])
  /\ \E i \in DOMAIN target_data : Get(target_data[i], "_id").t = "oid"
  /\ \E i \in DOMAIN differences.content_differences :
       HasOid(differences.content_differences[i].source_doc)

\* C10: make_hashable gives two values the same canonical form exactly when they are
\* equal up to the insertion order of mapping keys.
C10_CanonicalFormDecidesEquality ==
  pc = "hashed" => ((hash_a = hash_b) <=> StructEq(obj_a, obj_b))

\* the direction make_hashable does give: equal values have equal canonical forms
C10_EqualValuesEqualForms ==
  pc = "hashed" => (StructEq(obj_a, obj_b) => hash_a = hash_b)

====
